---- MODULE Spec2Model ----
(***************************************************************************)
(* CyberSource Secure Acceptance gateway of saleor                         *)
(* (saleor/payment/gateways/cybersource): the request signer and validator *)
(* of csapi.py and the webhook entry point of webhooks.py.                 *)
(*                                                                         *)
(* Strings are sequences of tokens: a field name, a value atom, "," and    *)
(* "=" are one token each, so that str.join, str.split and the '%s'        *)
(* formatting of tosign are computed on the tokens, as the code computes   *)
(* them on characters.  A field set (a Python dict) is a function from     *)
(* field names to strings.  An exception that leaves a function is the     *)
(* record [ok |-> FALSE, exc |-> <class name>].                            *)
(*                                                                         *)
(* HMAC-SHA256 followed by base64 is modelled as an ideal MAC: the digest  *)
(* of message m under key k is the string <<"HMAC", k>> \o m, so that two  *)
(* digests are equal exactly when key and message are.                     *)
(***************************************************************************)
EXTENDS Naturals, Sequences, FiniteSets, TLC

(***************************************************************************)
(* Bounds of the model.                                                    *)
(***************************************************************************)
\* Fields a caller's input leaves out of the full input template.
MaxOmit == 1
\* Changes made to a posted field set between its signing and validation.
MaxTamper == 1
\* Webhook deliveries per caller (notify, return) in one behaviour.
MaxDeliveries == 2
\* Calls of the plugin's payment entry points in one behaviour.
MaxCalls == 2
\* Calls of Response and Handler methods in one behaviour.
MaxUnitCalls == 2

(***************************************************************************)
(* csapi.py: module constants.                                             *)
(***************************************************************************)
CURRENCY == "NPR"
LOCALE == "en"
PAYMENT_METHOD == "card"
AUTH == "authorization"
CAPTURE == "sale"
SIGNED_FIELD_SEP == ","
SIGNED_VALUE_SEP == "="

REQUIRED_FIELDS ==
  { "access_key", "amount", "currency", "locale", "profile_id",
    "reference_number", "signed_date_time", "signed_field_names",
    "transaction_type", "transaction_uuid", "unsigned_field_names" }

SIGNED_FIELDS ==
  REQUIRED_FIELDS \cup
  { "bill_to_forename", "bill_to_surname", "bill_to_phone", "bill_to_email",
    "bill_to_address_line1", "bill_to_address_line2", "bill_to_address_city",
    "bill_to_address_postal_code", "bill_to_address_state",
    "bill_to_address_country", "merchant_id", "payment_method" }

ADDED_FIELDS ==
  { "access_key", "currency", "locale", "merchant_id", "payment_method",
    "profile_id", "signed_date_time", "signed_field_names",
    "transaction_type", "transaction_uuid", "unsigned_field_names" }

\* Mutant of CHECK_FIELDS: the pre-check asks for every required field.
CheckFieldsAll == REQUIRED_FIELDS

CHECK_FIELDS == REQUIRED_FIELDS \ ADDED_FIELDS

EXTRA_FIELDS == { "signed_field_names", "unsigned_field_names" }

\* class Status
ACCEPT == "ACCEPT"
REVIEW == "REVIEW"
DECLINE == "DECLINE"
CANCEL == "CANCEL"
ERROR == "ERROR"
StatusRETURN == { ACCEPT, REVIEW }
StatusCONFIRM == StatusRETURN
StatusSUCCESS == StatusRETURN
\* Mutant of StatusFAILED: ERROR is in neither group.
StatusFailedNoError == { CANCEL, DECLINE }
StatusFAILED == { CANCEL, DECLINE, ERROR }

(***************************************************************************)
(* Python built-ins used by csapi.py.                                      *)
(***************************************************************************)
\* sorted() on field names: the names the model uses, in the order Python's
\* string comparison puts them.
NameOrder ==
  << "access_key", "amount", "bill_to_address_city",
     "bill_to_address_country", "bill_to_address_line1",
     "bill_to_address_line2", "bill_to_address_postal_code",
     "bill_to_address_state", "bill_to_email", "bill_to_forename",
     "bill_to_phone", "bill_to_surname", "currency", "customer_ip_address",
     "decision", "locale", "merchant_id", "message", "order_id",
     "payment_method", "profile_id", "reason_code", "reference_number",
     "req_amount", "req_currency", "req_reference_number",
     "req_transaction_uuid", "signature", "signed_date_time",
     "signed_field_names", "transaction_type", "transaction_uuid",
     "unsigned_field_names" >>

Sorted(S) == SelectSeq(NameOrder, LAMBDA n : n \in S)

\* sep.join(parts): parts is a sequence of strings.
RECURSIVE JoinStr(_, _)
JoinStr(parts, sep) ==
  IF Len(parts) = 0 THEN <<>>
  ELSE IF Len(parts) = 1 THEN parts[1]
  ELSE parts[1] \o <<sep>> \o JoinStr(Tail(parts), sep)

\* s.split(sep): never empty, ''.split(',') is [''].
RECURSIVE SplitStr(_, _)
SplitStr(s, sep) ==
  IF \A i \in 1..Len(s) : s[i] # sep THEN << s >>
  ELSE LET i == CHOOSE j \in 1..Len(s) :
                  s[j] = sep /\ \A k \in 1..(j - 1) : s[k] # sep
       IN  << SubSeq(s, 1, i - 1) >> \o SplitStr(SubSeq(s, i + 1, Len(s)), sep)

\* A name as a string, and a sequence of names as a sequence of strings.
Str(n) == << n >>
Strs(names) == [i \in 1..Len(names) |-> Str(names[i])]

\* dict operations.
EmptyDict == [n \in {} |-> <<>>]
Put(d, k, v) == [n \in (DOMAIN d) \cup {k} |-> IF n = k THEN v ELSE d[n]]
Del(d, k) == [n \in (DOMAIN d) \ {k} |-> d[n]]
\* `key in d` and d[key] for a key given as a string: the names of a field
\* set are single tokens.
HasKey(d, s) == Len(s) = 1 /\ s[1] \in DOMAIN d

\* A local variable: F applied to the value of v, v evaluated once.
With(v, F(_)) == CHOOSE r \in { F(x) : x \in { v } } : TRUE

Ok(v) == [ok |-> TRUE, value |-> v, exc |-> "", msg |-> ""]
Raise(e, m) == [ok |-> FALSE, value |-> EmptyDict, exc |-> e, msg |-> m]

(***************************************************************************)
(* csapi.py: exceptions.  ValidationError.__init__ and                     *)
(* CyberSourceError.__init__ declare no self parameter, only star-args, so *)
(* their zero-argument super() raises RuntimeError while the exception is  *)
(* being constructed; SignatureError.__init__(self, code=99) reads args,   *)
(* a name it does not bind, and raises NameError.  A raise statement of    *)
(* either class therefore leaves with the constructor's exception.  The    *)
(* msg of the record is the message the raise statement passed: it tells   *)
(* which raise it was; the exception that surfaces does not carry it.      *)
(***************************************************************************)
RaiseValidationError(msg) == Raise("RuntimeError", msg)

RaiseSignatureError(msg) == Raise("NameError", msg)

E_SIGNATURE == "Signature does not match."
E_NO_SIGN_FIELD == "No signature field in payment data."
E_NO_SIGN_VALUE == "No signature value in payment data."
E_CHECK_FIELDS == "Required fields check failed."
E_REQ_FIELDS == "Required field(s) are missing."
E_NOKEY == "Missing field(s) in payment data."
E_AMOUNT == "Amount format or type is invalid."

(***************************************************************************)
(* csapi.py: class CyberSource.  self is the record                        *)
(* [merchant_id, profile_id, access_key, secret_key, is_live,              *)
(* auto_capture].                                                          *)
(***************************************************************************)
\* AMOUNT_FORMAT % Decimal(amount), on the amounts callers pass here.
\* Decimal() of a string that is no number raises decimal.InvalidOperation,
\* an ArithmeticError, which _format_amount does not catch; Decimal(None)
\* raises TypeError, which it turns into ValidationError.
AmountFormat(amount) ==
  CASE amount = <<"100">> -> Ok(<<"100.00">>)
    [] amount = <<"12.5">> -> Ok(<<"12.50">>)
    [] amount = <<"100.00">> -> Ok(<<"100.00">>)
    [] amount = <<"None">> -> RaiseValidationError(E_AMOUNT)
    [] OTHER -> Raise("InvalidOperation", "ConversionSyntax")

FormatAmount(result) ==
  IF "amount" \notin DOMAIN result
  THEN RaiseValidationError("Field amount is missing in payment data.")
  ELSE LET a == AmountFormat(result["amount"])
       IN  IF a.ok THEN Ok(Put(result, "amount", a.value)) ELSE a

\* _add_missing: now is datetime.now(utc).strftime(TS_FORMAT), uuid is
\* str(uuid.uuid4()); each is read only when its field is missing.
AddMissing(result, now, uuid) ==
  LET r1 == IF "currency" \in DOMAIN result THEN result
            ELSE Put(result, "currency", Str(CURRENCY))
      r2 == IF "locale" \in DOMAIN r1 THEN r1
            ELSE Put(r1, "locale", Str(LOCALE))
      r3 == IF "payment_method" \notin DOMAIN r2
               /\ "payment_method" \in ADDED_FIELDS
            THEN Put(r2, "payment_method", Str(PAYMENT_METHOD)) ELSE r2
      r4 == IF "signed_date_time" \in DOMAIN r3 THEN r3
            ELSE Put(r3, "signed_date_time", Str(now))
  IN  IF "transaction_uuid" \in DOMAIN r4 THEN r4
      ELSE Put(r4, "transaction_uuid", Str(uuid))

\* Whether _add_missing calls uuid.uuid4() / datetime.now() for this input.
CallsUuid4(data) == "transaction_uuid" \notin DOMAIN data
ReadsClock(data) == "signed_date_time" \notin DOMAIN data

\* Mutant of CreateResult: a transaction_type the caller supplied is kept.
CreateResultKeepsType(self, data, now, uuid) ==
  LET r1 == Put(data, "profile_id", Str(self.profile_id))
      r2 == Put(r1, "access_key", Str(self.access_key))
      r3 == IF "transaction_type" \in DOMAIN r2 THEN r2
            ELSE Put(r2, "transaction_type",
                     Str(IF self.auto_capture THEN CAPTURE ELSE AUTH))
      r4 == IF "merchant_id" \in ADDED_FIELDS
            THEN Put(r3, "merchant_id", Str(self.merchant_id)) ELSE r3
      fa == FormatAmount(r4)
  IN  IF fa.ok THEN Ok(AddMissing(fa.value, now, uuid)) ELSE fa

\* Mutant of CreateResult: the secret key is added like the access key.
CreateResultWithSecret(self, data, now, uuid) ==
  LET r1 == Put(data, "profile_id", Str(self.profile_id))
      r2 == Put(r1, "access_key", Str(self.access_key))
      r3 == Put(r2, "transaction_type",
                Str(IF self.auto_capture THEN CAPTURE ELSE AUTH))
      r4 == IF "merchant_id" \in ADDED_FIELDS
            THEN Put(r3, "merchant_id", Str(self.merchant_id)) ELSE r3
      r5 == Put(r4, "secret_key", Str(self.secret_key))
      fa == FormatAmount(r5)
  IN  IF fa.ok THEN Ok(AddMissing(fa.value, now, uuid)) ELSE fa

CreateResult(self, data, now, uuid) ==
  LET r1 == Put(data, "profile_id", Str(self.profile_id))
      r2 == Put(r1, "access_key", Str(self.access_key))
      r3 == Put(r2, "transaction_type",
                Str(IF self.auto_capture THEN CAPTURE ELSE AUTH))
      r4 == IF "merchant_id" \in ADDED_FIELDS
            THEN Put(r3, "merchant_id", Str(self.merchant_id)) ELSE r3
      fa == FormatAmount(r4)
  IN  IF fa.ok THEN Ok(AddMissing(fa.value, now, uuid)) ELSE fa

\* tosign.  fields is the parameter of that name: None, or a list of names.
FieldsNone == [given |-> FALSE, names |-> <<>>]
Fields(names) == [given |-> TRUE, names |-> names]

\* Mutant of ToSign: a caller-given field list is rendered as bare values,
\* without "name=".
ToSignBareWhenGiven(data, fields) ==
  IF ~fields.given /\ "signed_field_names" \notin DOMAIN data
  THEN RaiseValidationError(E_NOKEY)
  ELSE LET fs == IF ~fields.given
                 THEN SplitStr(data["signed_field_names"], SIGNED_FIELD_SEP)
                 ELSE fields.names
       IN  IF \E i \in 1..Len(fs) : ~HasKey(data, fs[i])
           THEN RaiseValidationError(E_NOKEY)
           ELSE Ok(JoinStr([i \in 1..Len(fs) |->
                              IF fields.given THEN data[fs[i][1]]
                              ELSE fs[i] \o <<SIGNED_VALUE_SEP>>
                                         \o data[fs[i][1]]],
                           SIGNED_FIELD_SEP))

\* Mutant of ToSign: without a field list, every field but the signature
\* is signed, listed or not.
ToSignAllKeys(data, fields) ==
  LET fs == IF ~fields.given
            THEN Strs(Sorted((DOMAIN data) \ {"signature"}))
            ELSE fields.names
  IN  IF \E i \in 1..Len(fs) : ~HasKey(data, fs[i])
      THEN RaiseValidationError(E_NOKEY)
      ELSE Ok(JoinStr([i \in 1..Len(fs) |->
                         fs[i] \o <<SIGNED_VALUE_SEP>> \o data[fs[i][1]]],
                      SIGNED_FIELD_SEP))

ToSign(data, fields) ==
  IF ~fields.given /\ "signed_field_names" \notin DOMAIN data
  THEN RaiseValidationError(E_NOKEY)
  ELSE LET fs == IF ~fields.given
                 THEN SplitStr(data["signed_field_names"], SIGNED_FIELD_SEP)
                 ELSE fields.names
       IN  IF \E i \in 1..Len(fs) : ~HasKey(data, fs[i])
           THEN RaiseValidationError(E_NOKEY)
           ELSE Ok(JoinStr([i \in 1..Len(fs) |->
                              fs[i] \o <<SIGNED_VALUE_SEP>> \o data[fs[i][1]]],
                           SIGNED_FIELD_SEP))

\* hmac.new(key, msg, sha256).digest(), base64-encoded.
HmacSha256B64(key, msg) == <<"HMAC", key>> \o msg

\* Mutant of Sign: the digest covers every field of data but the signature,
\* whatever the field list.
SignEveryField(self, data, fields) ==
  LET t == ToSign(data, Fields(Strs(Sorted((DOMAIN data) \ {"signature"}))))
  IN  IF t.ok THEN Ok(HmacSha256B64(self.secret_key, t.value)) ELSE t

Sign(self, data, fields) ==
  LET t == ToSign(data, fields)
  IN  IF t.ok THEN Ok(HmacSha256B64(self.secret_key, t.value)) ELSE t

\* process, lines 335-337: the two subsets of the result's keys.
\* Mutant of SignedNames: signed.update(EXTRA_FIELDS) is left out.
SignedNamesNoExtra(fields) == fields \cap SIGNED_FIELDS

SignedNames(fields) == (fields \cap SIGNED_FIELDS) \cup EXTRA_FIELDS

\* Mutant of UnsignedNames: every field is listed as unsigned.
UnsignedNamesAll(fields, signed) == fields

UnsignedNames(fields, signed) == fields \ signed

Process(self, data, now, uuid) ==
  IF CHECK_FIELDS \subseteq DOMAIN data
  THEN LET cr == CreateResult(self, data, now, uuid)
       IN  IF ~cr.ok THEN cr
           ELSE
             LET result == cr.value
                 fields == DOMAIN result
                 signed == SignedNames(fields)
                 unsigned == UnsignedNames(fields, signed)
                 r1 == Put(result, "signed_field_names",
                           JoinStr(Strs(Sorted(signed)), SIGNED_FIELD_SEP))
                 r2 == Put(r1, "unsigned_field_names",
                           JoinStr(Strs(Sorted(unsigned)), SIGNED_FIELD_SEP))
             IN  \* fields is a live view of result's keys
                 IF REQUIRED_FIELDS \subseteq DOMAIN r2
                 THEN LET s == Sign(self, r2, Fields(Strs(Sorted(signed))))
                      IN  IF s.ok THEN Ok(Put(r2, "signature", s.value))
                          ELSE s
                 ELSE RaiseValidationError(E_CHECK_FIELDS)
  ELSE RaiseValidationError(E_REQ_FIELDS)

\* class Response: the wrapped field set, the reason code and the decision.
NoValue == <<"None">>
Get(d, k, default) == IF k \in DOMAIN d THEN d[k] ELSE default

Response(data) ==
  [ data |-> data,
    code |-> Get(data, "reason_code", <<"0">>),
    status |-> Get(data, "decision", NoValue) ]

Validate(self, data) ==
  IF "signature" \notin DOMAIN data
  THEN RaiseValidationError(E_NO_SIGN_FIELD)
  ELSE IF data["signature"] = <<>>
  THEN RaiseValidationError(E_NO_SIGN_VALUE)
  ELSE LET s == Sign(self, data, FieldsNone)
       IN  IF ~s.ok THEN s
           ELSE IF data["signature"] # s.value
           THEN RaiseSignatureError(E_SIGNATURE)
           ELSE Ok(Response(data))

(***************************************************************************)
(* The signer's environment: the caller of process(), the clock and        *)
(* uuid.uuid4() it reads, and the channel that carries a signed field set  *)
(* to validate().                                                          *)
(***************************************************************************)
VARIABLES
  cs,       \* the CyberSource object (its configuration)
  clock,    \* what datetime.now(utc).strftime(TS_FORMAT) returns now
  built,    \* the last process() call: input, clock and uuid4 values, outcome
  prev,     \* the process() call before it, when the last one repeats it
  posted,   \* the field set on its way to validate()
  orig,     \* the field set as it was signed
  ntamper,  \* changes made to posted since it was signed
  vres,     \* what validate(posted) returned or raised
  sphase    \* "idle", "posted" or "validated"

signVars == << cs, clock, built, prev, posted, orig, ntamper, vres, sphase >>

\* The state handle_webhook and its callers work on.
VARIABLES
  db,       \* the stored Payment row and its Transaction rows
  orders,   \* times the checkout collaborator was asked to create the order
  gw,       \* the decision the gateway reports
  pc,       \* per caller: "idle", "called", "validated" or "done"
  req,      \* per caller: the posted data of its current call
  res,      \* per caller: what its last handle_webhook returned or raised
  log,      \* per caller: the collaborators its current call has called
  ncalls,   \* per caller: handle_webhook calls started
  nvalid,   \* per caller: calls whose data passed _validate_payment
  http      \* per caller: what plugin.webhook answered its last request

hookVars == << db, orders, gw, pc, req, res, log, ncalls, nvalid, http >>

\* The plugin object and its payment entry points.
VARIABLES
  plugin,   \* the plugin's configuration
  pcall,    \* the last call of a payment entry point, and what it gave
  issued,   \* the tokens get_client_token() has returned
  npay      \* payment entry point calls made

plugVars == << plugin, pcall, issued, npay >>

\* A Handler, the Transactions of its payment, and a Response, as their
\* methods are called one at a time.
VARIABLES
  hstore,   \* payment.transactions, in the order of their keys
  hcall,    \* the last call of a Handler method, and what it did
  resp,     \* the field set a Response wraps
  rcall,    \* the last call of Response.add or Response.update
  nunit     \* calls made

unitVars == << hstore, hcall, resp, rcall, nunit >>

vars == << signVars, hookVars, plugVars, unitVars >>

Restrict(d, S) == [n \in S |-> d[n]]

\* A caller's input that names every field process() knows, and the input
\* CyberSourceGatewayPlugin._create_ard passes.
FullInput ==
  [ n \in REQUIRED_FIELDS \cup
          { "bill_to_email", "customer_ip_address", "signature" } |->
      CASE n = "amount" -> <<"100">>
        [] n = "currency" -> <<"USD">>
        [] n = "locale" -> <<"ne">>
        [] n = "reference_number" -> <<"R1">>
        [] n = "signed_date_time" -> <<"T0">>
        [] n = "transaction_uuid" -> <<"U0">>
        [] n = "signed_field_names" -> <<"amount">>
        [] n = "unsigned_field_names" -> <<>>
        [] n = "customer_ip_address" -> <<"IP1">>
        [] OTHER -> <<"caller">> ]

PluginInput ==
  [ n \in { "amount", "currency", "reference_number", "transaction_uuid",
            "bill_to_email", "bill_to_forename" } |->
      CASE n = "amount" -> <<"100">>
        [] n = "currency" -> <<"USD">>
        [] n = "reference_number" -> <<"R1">>
        [] n = "transaction_uuid" -> <<"U0">>
        [] OTHER -> <<"bill">> ]

Amounts == { <<"100">>, <<"12.5">>, <<"abc">>, <<"None">> }

WithAmount(d, a) == IF "amount" \in DOMAIN d THEN Put(d, "amount", a) ELSE d

Templates == { FullInput, PluginInput }

Inputs ==
  { Restrict(t, (DOMAIN t) \ O) :
      t \in Templates,
      O \in { X \in SUBSET (DOMAIN FullInput) : Cardinality(X) <= MaxOmit } }
  \cup { WithAmount(t, a) : t \in Templates, a \in Amounts }

\* A second call's input: the same input, the same with another spelling of
\* the amount, or the same with another value of a field that is not signed.
Variations(d) ==
  { d }
  \cup { Put(d, "amount", <<"100.00">>) : x \in { y \in {1} :
           "amount" \in DOMAIN d /\ d["amount"] = <<"100">> } }
  \cup { Put(d, "customer_ip_address", <<"IP2">>) : x \in { y \in {1} :
           "customer_ip_address" \in DOMAIN d } }

Clocks == { "T1", "T2" }
Uuids == { "U1", "U2" }
Keys == { "K1", "K2" }

NoBuild ==
  [ called |-> FALSE, input |-> EmptyDict, now |-> "", uuid |-> "",
    out |-> Raise("", "") ]

Build(data, now, uuid) ==
  [ called |-> TRUE, input |-> data, now |-> now, uuid |-> uuid,
    out |-> Process(cs, data, now, uuid) ]

SignInit ==
  /\ cs \in [ merchant_id : {"M"}, profile_id : {"P"}, access_key : {"AK"},
              secret_key : Keys, is_live : {FALSE}, auto_capture : BOOLEAN ]
  /\ clock = "T1"
  /\ built = NoBuild
  /\ prev = NoBuild
  /\ posted = EmptyDict
  /\ orig = EmptyDict
  /\ ntamper = 0
  /\ vres = Raise("", "")
  /\ sphase = "idle"

\* Time passes.
Tick ==
  /\ clock = "T1"
  /\ clock' = "T2"
  /\ UNCHANGED << unitVars, plugVars, hookVars, cs, built, prev, posted, orig, ntamper, vres, sphase >>

\* A caller calls cs.process(data); uuid is what uuid.uuid4() would return.
ProcessCall(data, uuid) ==
  /\ sphase = "idle"
  /\ ~built.called
  /\ built' = Build(data, clock, uuid)
  /\ prev' = NoBuild
  /\ UNCHANGED << unitVars, plugVars, hookVars, cs, clock, posted, orig, ntamper, vres, sphase >>

\* The caller calls cs.process again, with the last input or a variation.
ProcessAgain(data, uuid) ==
  /\ sphase = "idle"
  /\ built.called
  /\ prev = NoBuild
  /\ built' = Build(data, clock, uuid)
  /\ prev' = built
  /\ UNCHANGED << unitVars, plugVars, hookVars, cs, clock, posted, orig, ntamper, vres, sphase >>

\* The field set process() returned is sent off (the browser posts the form,
\* the gateway echoes it).
Post ==
  /\ sphase = "idle"
  /\ built.called /\ built.out.ok
  /\ posted' = built.out.value
  /\ orig' = built.out.value
  /\ ntamper' = 0
  /\ built' = NoBuild
  /\ prev' = NoBuild
  /\ sphase' = "posted"
  /\ UNCHANGED << unitVars, plugVars, hookVars, cs, clock, vres >>

TamperFields ==
  { "amount", "signed_field_names", "customer_ip_address", "message",
    "signature" }

TamperValues == { <<>>, <<"amount">> }

\* Somebody on the way changes the value of a field, ...
ChangeField(f, v) ==
  /\ sphase = "posted"
  /\ ntamper < MaxTamper
  /\ f \in DOMAIN posted
  /\ posted[f] # v
  /\ posted' = Put(posted, f, v)
  /\ ntamper' = ntamper + 1
  /\ UNCHANGED << unitVars, plugVars, hookVars, cs, clock, built, prev, orig, vres, sphase >>

\* ... adds a field, ...
AddField(f, v) ==
  /\ sphase = "posted"
  /\ ntamper < MaxTamper
  /\ f \notin DOMAIN posted
  /\ posted' = Put(posted, f, v)
  /\ ntamper' = ntamper + 1
  /\ UNCHANGED << unitVars, plugVars, hookVars, cs, clock, built, prev, orig, vres, sphase >>

\* ... or removes one.
RemoveField(f) ==
  /\ sphase = "posted"
  /\ ntamper < MaxTamper
  /\ f \in DOMAIN posted
  /\ posted' = Del(posted, f)
  /\ ntamper' = ntamper + 1
  /\ UNCHANGED << unitVars, plugVars, hookVars, cs, clock, built, prev, orig, vres, sphase >>

\* The receiver calls cs.validate(posted).
ValidateCall ==
  /\ sphase = "posted"
  /\ vres' = Validate(cs, posted)
  /\ sphase' = "validated"
  /\ UNCHANGED << unitVars, plugVars, hookVars, cs, clock, built, prev, posted, orig, ntamper >>

SignNext ==
  \/ Tick
  \/ \E data \in Inputs, uuid \in Uuids : ProcessCall(data, uuid)
  \/ \E data \in Variations(built.input), uuid \in Uuids :
       ProcessAgain(data, uuid)
  \/ Post
  \/ \E f \in TamperFields, v \in TamperValues : ChangeField(f, v)
  \/ \E f \in TamperFields, v \in TamperValues : AddField(f, v)
  \/ \E f \in TamperFields : RemoveField(f)
  \/ ValidateCall


(***************************************************************************)
(* webhooks.py: handle_webhook and its callers.  The gateway reports the   *)
(* outcome of one payment; the report reaches handle_webhook through the   *)
(* server-to-server notification and through the browser's return, each    *)
(* possibly more than once and possibly changed on the way.                *)
(***************************************************************************)
Callers == { "notify", "return" }

Statuses == { ACCEPT, REVIEW, DECLINE, CANCEL, ERROR }

\* TransactionKind (saleor.payment), as webhooks.py uses it.
ACTION_TO_CONFIRM == "action_to_confirm"

PaymentId == "1"
Token == "U0"

NoPayment ==
  [ exists |-> FALSE, to_confirm |-> FALSE, order |-> "None",
    checkout |-> FALSE, token |-> "" ]

PendingTransaction ==
  [ kind |-> ACTION_TO_CONFIRM, action_required |-> TRUE,
    is_success |-> TRUE, token |-> Token ]

\* The stores a webhook can meet: no such payment; a payment already
\* confirmed, with its order; one awaiting confirmation, with or without the
\* transaction the redirect recorded, with or without a checkout or an order.
DbStates ==
  { [ payment |-> NoPayment, transactions |-> {} ] }
  \cup
  { [ payment |-> [ exists |-> TRUE, to_confirm |-> FALSE, order |-> "O1",
                    checkout |-> FALSE, token |-> Token ],
      transactions |-> { PendingTransaction } ] }
  \cup
  { [ payment |-> [ exists |-> TRUE, to_confirm |-> TRUE, order |-> "None",
                    checkout |-> ck, token |-> Token ],
      transactions |-> txs ] :
      ck \in BOOLEAN, txs \in { {}, { PendingTransaction } } }

\* What the gateway posts: the echoed request fields and its decision, signed
\* with the merchant's secret key over the fields signed_field_names lists.
GatewayFields(decision) ==
  [ n \in { "decision", "reason_code", "req_amount", "req_currency",
            "req_reference_number", "req_transaction_uuid" } |->
      CASE n = "decision" -> Str(decision)
        [] n = "reason_code" -> <<"100">>
        [] n = "req_amount" -> <<"100.00">>
        [] n = "req_currency" -> Str(CURRENCY)
        [] n = "req_reference_number" -> Str(PaymentId)
        [] OTHER -> Str(Token) ]

GatewaySigned(key, decision) ==
  LET f == GatewayFields(decision)
      d == Put(f, "signed_field_names",
               JoinStr(Strs(Sorted((DOMAIN f) \cup {"signed_field_names"})),
                       SIGNED_FIELD_SEP))
  IN  Put(d, "signature",
          HmacSha256B64(key, ToSign(d, FieldsNone).value))

\* What happens to the post on its way.
Tampers == { "none", "nosig", "emptysig", "value", "nofield" }

Tampered(key, decision, t) ==
  LET d == GatewaySigned(key, decision)
  IN  CASE t = "nosig" -> Del(d, "signature")
        [] t = "emptysig" -> Put(d, "signature", <<>>)
        [] t = "value" -> Put(d, "req_amount", <<"0.01">>)
        [] t = "nofield" -> Del(d, "req_amount")
        [] OTHER -> d

\* core.transactions.transaction_with_commit_on_errors, which wraps
\* handle_webhook: the store after the call, given the store before it, the
\* store the body left and the body's outcome.
TransactionWithCommitOnErrors(before, after, outcome) ==
  IF outcome.ok THEN after ELSE before

\* _validate_payment: ValidationError and SignatureError become
\* PaymentError; any other exception passes through.
ValidatePayment(self, data) ==
  LET r == Validate(self, data)
  IN  IF r.ok THEN r
      ELSE IF r.exc = "ValidationError"
      THEN Raise("PaymentError",
                 "Unable to validate response sent by Payment Gateway.")
      ELSE IF r.exc = "SignatureError"
      THEN Raise("PaymentError",
                 "Cannot verify response data sent by Payment Gateway.")
      ELSE r

\* Mutant of Reconcile: the payment is looked up whatever the decision.
ReconcileEveryDecision(response) ==
  Raise("NameError", "name 'get_payment' is not defined")

\* handle_webhook after validation, lines 194-205.  webhooks.py neither
\* defines nor imports get_payment: for a decision in Status.RETURN the call
\* at line 195 raises NameError before its argument is evaluated, so neither
\* the lookup nor anything after it runs.
Reconcile(response) ==
  IF response.status \in { Str(st) : st \in StatusRETURN }
  THEN Raise("NameError", "name 'get_payment' is not defined")
  ELSE Ok(response)

(***************************************************************************)
(* plugin.py: CyberSourceGatewayPlugin.webhook, which answers the          *)
(* gateway's notification and the browser's return.                        *)
(***************************************************************************)
\* The names of the posted fields that hold the payment id and the token.
PAYMENT_ID == "req_reference_number"
TOKEN_NAME == "req_transaction_uuid"

STATUS_FIELD == "decision"
CODE_FIELD == "reason_code"
TEXT_FIELD == "message"
QUERY_STRING == "payment"
EXCEPTION_CODE == "10"
EXCEPTION_TEXT == "Oops! Something went wrong."

StatusLABELS ==
  [ st \in Statuses |->
      CASE st = ACCEPT -> "Accepted"
        [] st = REVIEW -> "In Review"
        [] st = DECLINE -> "Declined"
        [] st = CANCEL -> "Cancelled"
        [] OTHER -> "Error!" ]

StatusMESSAGES ==
  [ st \in Statuses |->
      CASE st = ACCEPT -> "Payment accepted"
        [] st = REVIEW -> "Payment is in review"
        [] st = DECLINE -> "Payment was declined"
        [] st = CANCEL -> "Payment is cancelled"
        [] OTHER -> "Payment processing error" ]

\* Status.label(name) and Status.message(name), name a decision as posted.
StatusLabel(name) ==
  IF \E st \in Statuses : name = Str(st)
  THEN Str(StatusLABELS[name[1]]) ELSE name

StatusMessage(name) ==
  IF \E st \in Statuses : name = Str(st)
  THEN Str(StatusMESSAGES[name[1]]) ELSE <<>>

\* Response.message: the posted message, or the decision's when it is falsy.
ResponseMessage(response) ==
  LET msg == Get(response.data, TEXT_FIELD, <<>>)
  IN  IF msg = <<>> \/ msg = NoValue THEN StatusMessage(response.status)
      ELSE msg

\* str(err) of an exception handle_webhook let out.  The exceptions the
\* broken constructors of csapi.py raise carry their own text, not the
\* message of the raise statement.
StrErr(r) ==
  CASE r.exc = "RuntimeError" -> "super(): no arguments"
    [] r.exc = "NameError" /\ r.msg = E_SIGNATURE ->
         "name 'args' is not defined"
    [] OTHER -> r.msg

\* build_redirect_url: the url made absolute with the request's host.
BuildRedirectUrl(url) == << "request-host", url >>

\* json.dumps(...).encode(), b64encode, urlencode: the query string.
QueryString(payload) == << QUERY_STRING, << "b64", << "json", payload >> >> >>

NoHttp == [ kind |-> "", body |-> "", url |-> <<>>, qs |-> <<>> ]

HttpResponse(body) ==
  [ kind |-> "HttpResponse", body |-> body, url |-> <<>>, qs |-> <<>> ]

\* Mutant of WebhookRedirect: the browser is sent to the return URL whatever
\* the status.
WebhookRedirectToReturn(self, response, result) ==
  LET status == response.status
      conf == self.return_url
      url == IF conf \in { "None", "" } THEN BuildRedirectUrl("/")
             ELSE << conf >>
      base == [ k \in { "code", "label", "message", "status" } |->
                  CASE k = "code" -> response.code
                    [] k = "label" -> StatusLabel(status)
                    [] k = "message" -> ResponseMessage(response)
                    [] OTHER -> status ]
      data == [ k \in (DOMAIN base) \cup (DOMAIN result) |->
                  IF k \in DOMAIN result THEN result[k] ELSE base[k] ]
  IN  [ kind |-> "HttpResponseRedirect", body |-> "", url |-> url,
        qs |-> QueryString(data) ]

\* _webhook_redirect
WebhookRedirect(self, response, result) ==
  LET status == response.status
      conf == IF status \in { Str(st) : st \in StatusRETURN }
              THEN self.return_url ELSE self.cancel_url
      url == IF conf \in { "None", "" } THEN BuildRedirectUrl("/")
             ELSE << conf >>
      base == [ k \in { "code", "label", "message", "status" } |->
                  CASE k = "code" -> response.code
                    [] k = "label" -> StatusLabel(status)
                    [] k = "message" -> ResponseMessage(response)
                    [] OTHER -> status ]
      data == [ k \in (DOMAIN base) \cup (DOMAIN result) |->
                  IF k \in DOMAIN result THEN result[k] ELSE base[k] ]
  IN  [ kind |-> "HttpResponseRedirect", body |-> "", url |-> url,
        qs |-> QueryString(data) ]

\* _webhook_error_response(err, result): the Response, and result as the
\* call leaves it.
WebhookErrorResponse(err, result) ==
  IF err.exc = "PaymentError"
  THEN [ response |->
           Response([ k \in { STATUS_FIELD, CODE_FIELD, TEXT_FIELD } |->
                        CASE k = STATUS_FIELD -> Str(ERROR)
                          [] k = CODE_FIELD -> <<"0">>
                          [] OTHER -> Str(err.msg) ]),
         result |-> result ]
  ELSE [ response |->
           Response([ k \in { STATUS_FIELD, CODE_FIELD, TEXT_FIELD } |->
                        CASE k = STATUS_FIELD -> Str(ERROR)
                          [] k = CODE_FIELD -> Str(EXCEPTION_CODE)
                          [] OTHER -> Str(EXCEPTION_TEXT) ]),
         result |-> Put(result, "error", Str(StrErr(err))) ]

\* Mutant of WebhookAnswer: an error on the notify path is answered like
\* one on the return path.
WebhookAnswerRedirectsNotify(self, path, data, outcome) ==
  LET result == [ k \in { "refno", "token" } |->
                    IF k = "refno" THEN Get(data, PAYMENT_ID, NoValue)
                    ELSE Get(data, TOKEN_NAME, NoValue) ]
  IN  IF outcome.ok
      THEN IF path = "notify" THEN HttpResponse("OK")
           ELSE WebhookRedirect(self, outcome.value,
                  Put(result, "order",
                      Get(outcome.value.data, "order_id", NoValue)))
      ELSE LET er == WebhookErrorResponse(outcome, result)
           IN  WebhookRedirect(self, er.response, er.result)

\* webhook, for a POST: lines 401-423 around the handle_webhook call, whose
\* outcome is given.
WebhookAnswer(self, path, data, outcome) ==
  LET result == [ k \in { "refno", "token" } |->
                    IF k = "refno" THEN Get(data, PAYMENT_ID, NoValue)
                    ELSE Get(data, TOKEN_NAME, NoValue) ]
  IN  IF outcome.ok
      THEN IF path = "notify" THEN HttpResponse("OK")
           ELSE WebhookRedirect(self, outcome.value,
                  Put(result, "order",
                      Get(outcome.value.data, "order_id", NoValue)))
      ELSE IF path = "notify" THEN HttpResponse("ERROR")
      ELSE LET er == WebhookErrorResponse(outcome, result)
           IN  WebhookRedirect(self, er.response, er.result)

\* webhook, for a request that is no POST.
WebhookAnswerNoPost(self, path) ==
  IF path = "notify"
  THEN [ kind |-> "HttpResponseNotAllowed", body |-> "", url |-> <<>>,
         qs |-> <<>> ]
  ELSE WebhookRedirect(self,
         Response([ k \in { STATUS_FIELD } |-> Str(CANCEL) ]), EmptyDict)

HookIdle ==
  /\ orders = 0
  /\ pc = [c \in Callers |-> "idle"]
  /\ req = [c \in Callers |-> EmptyDict]
  /\ res = [c \in Callers |-> Raise("", "")]
  /\ log = [c \in Callers |-> <<>>]
  /\ ncalls = [c \in Callers |-> 0]
  /\ nvalid = [c \in Callers |-> 0]
  /\ http = [c \in Callers |-> NoHttp]

HookInit ==
  /\ db \in DbStates
  /\ gw \in Statuses
  /\ HookIdle

\* A POST reaches plugin.webhook, which calls handle_webhook(self._cs, data).
Deliver(c, t) ==
  /\ pc[c] \in { "idle", "done" }
  /\ ncalls[c] < MaxDeliveries
  /\ pc' = [pc EXCEPT ![c] = "called"]
  /\ req' = [req EXCEPT ![c] = Tampered(cs.secret_key, gw, t)]
  /\ res' = [res EXCEPT ![c] = Raise("", "")]
  /\ log' = [log EXCEPT ![c] = <<>>]
  /\ http' = [http EXCEPT ![c] = NoHttp]
  /\ ncalls' = [ncalls EXCEPT ![c] = @ + 1]
  /\ UNCHANGED << db, orders, gw, nvalid, signVars, plugVars, unitVars >>

\* A request that is no POST reaches plugin.webhook, which answers it
\* without calling handle_webhook.
DeliverNoPost(c) ==
  /\ pc[c] \in { "idle", "done" }
  /\ ncalls[c] < MaxDeliveries
  /\ pc' = [pc EXCEPT ![c] = "done"]
  /\ req' = [req EXCEPT ![c] = EmptyDict]
  /\ res' = [res EXCEPT ![c] = Raise("", "")]
  /\ log' = [log EXCEPT ![c] = <<>>]
  /\ http' = [http EXCEPT ![c] = WebhookAnswerNoPost(plugin, c)]
  /\ ncalls' = [ncalls EXCEPT ![c] = @ + 1]
  /\ UNCHANGED << db, orders, gw, nvalid, signVars, plugVars, unitVars >>

\* Mutant of HandleWebhookValidate: the payment is looked up (and its row
\* locked) before the posted data is validated.
HandleWebhookLookupFirst(c) ==
  /\ pc[c] = "called"
  /\ \E r \in { ValidatePayment(cs, req[c]) } :
       /\ res' = [res EXCEPT ![c] = r]
       /\ pc' = [pc EXCEPT ![c] = IF r.ok THEN "validated" ELSE "done"]
       /\ http' = [http EXCEPT ![c] =
                     IF r.ok THEN NoHttp
                     ELSE WebhookAnswer(plugin, c, req[c], r)]
  /\ log' = [log EXCEPT ![c] = @ \o << "get_payment", "validate" >>]
  /\ UNCHANGED << db, orders, gw, req, ncalls, nvalid, signVars, plugVars, unitVars >>

\* handle_webhook, line 193: response = _validate_payment(cs, data); when
\* that raises, plugin.webhook answers.
HandleWebhookValidate(c) ==
  /\ pc[c] = "called"
  /\ \E r \in { ValidatePayment(cs, req[c]) } :
       /\ res' = [res EXCEPT ![c] = r]
       /\ pc' = [pc EXCEPT ![c] = IF r.ok THEN "validated" ELSE "done"]
       /\ http' = [http EXCEPT ![c] =
                     IF r.ok THEN NoHttp
                     ELSE WebhookAnswer(plugin, c, req[c], r)]
  /\ log' = [log EXCEPT ![c] = Append(@, "validate")]
  /\ UNCHANGED << db, orders, gw, req, ncalls, nvalid, signVars, plugVars, unitVars >>

\* Mutant of HandleWebhookReconcile: the call records a Transaction, then
\* raises, and what it wrote stays.
HandleWebhookPartialWrite(c) ==
  /\ pc[c] = "validated"
  /\ \E r \in { Reconcile(res[c].value) } :
       /\ res' = [res EXCEPT ![c] = r]
       /\ db' = IF r.ok THEN db
                ELSE [db EXCEPT !.transactions =
                        @ \cup { [ PendingTransaction EXCEPT
                                     !.action_required = FALSE ] }]
       /\ http' = [http EXCEPT ![c] = WebhookAnswer(plugin, c, req[c], r)]
  /\ pc' = [pc EXCEPT ![c] = "done"]
  /\ nvalid' = [nvalid EXCEPT ![c] = @ + 1]
  /\ UNCHANGED << orders, gw, req, log, ncalls, signVars, plugVars, unitVars >>

\* handle_webhook, lines 194-205, the end of its atomic block, and
\* plugin.webhook's answer.
HandleWebhookReconcile(c) ==
  /\ pc[c] = "validated"
  /\ \E r \in { Reconcile(res[c].value) } :
       /\ res' = [res EXCEPT ![c] = r]
       /\ db' = TransactionWithCommitOnErrors(db, db, r)
       /\ http' = [http EXCEPT ![c] = WebhookAnswer(plugin, c, req[c], r)]
  /\ pc' = [pc EXCEPT ![c] = "done"]
  /\ nvalid' = [nvalid EXCEPT ![c] = @ + 1]
  /\ UNCHANGED << orders, gw, req, log, ncalls, signVars, plugVars, unitVars >>

(***************************************************************************)
(* __init__.py and plugin.py: client tokens and the payment entry points   *)
(* of CyberSourceGatewayPlugin.                                            *)
(***************************************************************************)
\* TransactionKind (saleor.payment), as plugin.py uses it.
KindAUTH == "auth"
KindCAPTURE == "capture"
KindCONFIRM == "confirm"
KindVOID == "void"
KindREFUND == "refund"

NoToken == "None"
DEFAULT_TOKEN == "create"

\* The strings uuid.UUID() accepts, among the tokens of the model; TokenPool
\* is what uuid.uuid4() can return here.
TokenPool == { "U1", "U2" }
UuidStrings == TokenPool \cup { Token }

\* is_client_token(token), strict=False: None for a falsy token, else
\* whether uuid.UUID(token) parses.
IsClientToken(token) ==
  IF token \in { NoToken, "" } THEN "None"
  ELSE IF token \in UuidStrings THEN "True" ELSE "False"

\* make_searchable: token.replace('-', ''); None has no replace.
MakeSearchable(token) ==
  IF token = NoToken
  THEN Raise("AttributeError",
             "'NoneType' object has no attribute 'replace'")
  ELSE Ok(<< "nodash", token >>)

LIVE_URL == "https://secureacceptance.cybersource.com/pay"
TEST_URL == "https://testsecureacceptance.cybersource.com/pay"

Endpoint(self) == IF self.is_live THEN LIVE_URL ELSE TEST_URL

\* payment_information.data: None, or a dict.
NoData == [given |-> FALSE, fields |-> EmptyDict]
Data(fields) == [given |-> TRUE, fields |-> fields]
Truthy(data) == data.given /\ DOMAIN data.fields # {}

\* _create_ard: the redirect payload for token.  map_address gives the
\* billing fields that are not None and the customer's email.
CreateArd(self, pi, token, now) ==
  LET data ==
        [ n \in { "amount", "currency", "reference_number",
                  "transaction_uuid", "bill_to_forename",
                  "bill_to_email" } |->
            CASE n = "amount" -> Str(pi.amount)
              [] n = "currency" -> Str(pi.currency)
              [] n = "reference_number" -> Str(pi.payment_id)
              [] n = "transaction_uuid" -> Str(token)
              [] OTHER -> <<"bill">> ]
  IN  With(Process(self, data, now, ""),
           LAMBDA inputs :
             IF ~inputs.ok THEN inputs
             ELSE Ok([ action |-> Endpoint(self), inputs |-> inputs.value,
                       txn_id |-> token ]))

\* Mutant of CreateResponse: the defaults win over data's entries.
CreateResponseDefaultsWin(pi, kind, data) ==
  LET t0 == IF "transaction_id" \in DOMAIN data THEN data["transaction_id"]
            ELSE pi.token
      token == IF "token" \in DOMAIN data THEN data["token"] ELSE t0
      rest == [ k \in (DOMAIN data) \ {"token"} |-> data[k] ]
      sk == MakeSearchable(token)
      defaults ==
        [ kind |-> kind, is_success |-> TRUE, action_required |-> FALSE,
          action_required_data |-> EmptyDict, amount |-> pi.amount,
          currency |-> pi.currency, transaction_id |-> token,
          searchable_key |-> sk.value, error |-> "None" ]
  IN  IF ~sk.ok THEN sk
      ELSE Ok([ k \in (DOMAIN defaults) \cup (DOMAIN rest) |->
                  IF k \in DOMAIN defaults THEN defaults[k] ELSE rest[k] ])

\* _create_response: GatewayResponse(**response), data's entries over the
\* defaults.  data is a dict here, never None.
CreateResponse(pi, kind, data) ==
  LET t0 == IF "transaction_id" \in DOMAIN data THEN data["transaction_id"]
            ELSE pi.token
      token == IF "token" \in DOMAIN data THEN data["token"] ELSE t0
      rest == [ k \in (DOMAIN data) \ {"token"} |-> data[k] ]
      sk == MakeSearchable(token)
      defaults ==
        [ kind |-> kind, is_success |-> TRUE, action_required |-> FALSE,
          action_required_data |-> EmptyDict, amount |-> pi.amount,
          currency |-> pi.currency, transaction_id |-> token,
          searchable_key |-> sk.value, error |-> "None" ]
  IN  IF ~sk.ok THEN sk
      ELSE Ok([ k \in (DOMAIN defaults) \cup (DOMAIN rest) |->
                  IF k \in DOMAIN rest THEN rest[k] ELSE defaults[k] ])

\* Mutant of CreatePayment: the redirect is issued for the caller's token.
CreatePaymentSameToken(self, pi, token, now) ==
  With(CreateArd(self, pi, pi.token, now),
       LAMBDA ard :
         IF ~ard.ok THEN ard
         ELSE CreateResponse(pi, ACTION_TO_CONFIRM,
                [ k \in { "action_required", "action_required_data",
                          "transaction_id" } |->
                    CASE k = "action_required" -> TRUE
                      [] k = "action_required_data" -> ard.value
                      [] OTHER -> pi.token ]))

\* _create_payment, called with a token.
CreatePayment(self, pi, token, now) ==
  With(CreateArd(self, pi, token, now),
       LAMBDA ard :
         IF ~ard.ok THEN ard
         ELSE CreateResponse(pi, ACTION_TO_CONFIRM,
                [ k \in { "action_required", "action_required_data",
                          "transaction_id" } |->
                    CASE k = "action_required" -> TRUE
                      [] k = "action_required_data" -> ard.value
                      [] OTHER -> token ]))

PAYMENT_ERROR == "Payment information not found for ID=%s."

\* Mutant of PluginGetPayment: a missing payment is returned as None.
PluginGetPaymentNone(store, pi) ==
  IF store.payment.exists /\ pi.payment_id = PaymentId
  THEN Ok(store.payment) ELSE Ok(NoPayment)

\* CyberSourceGatewayPlugin._get_payment, over utils.get_payment.
PluginGetPayment(store, pi) ==
  IF store.payment.exists /\ pi.payment_id = PaymentId
  THEN Ok(store.payment)
  ELSE Raise("PaymentError", PAYMENT_ERROR)

\* getattr(csapi.Status, name): class Status has the five decisions (and
\* LABELS, MESSAGES, RETURN, CONFIRM, SUCCESS, FAILED), and no CAPTURE.
StatusAttr(name) ==
  IF name \in Statuses THEN Ok(Str(name))
  ELSE Raise("AttributeError",
             "type object 'Status' has no attribute 'CAPTURE'")

\* Mutant of PluginConfirmPayment: without an accepted decision the kind
\* asked for is kept, unless the decision is a failure.
PluginConfirmPaymentKeepsKind(kind, pi, payment) ==
  IF Truthy(pi.data)
       /\ Get(pi.data.fields, "decision", NoValue)
            \in { Str(st) : st \in StatusFAILED }
  THEN Ok(ACTION_TO_CONFIRM)
  ELSE Ok(kind)

\* Mutant of PluginConfirmPayment: an accepted decision resolves to AUTH
\* whatever kind was asked for.
PluginConfirmPaymentAlwaysAuth(kind, pi, payment) ==
  IF Truthy(pi.data)
       /\ Get(pi.data.fields, "decision", NoValue)
            \in { Str(st) : st \in StatusCONFIRM }
  THEN Ok(KindAUTH)
  ELSE Ok(ACTION_TO_CONFIRM)

\* CyberSourceGatewayPlugin._confirm_payment, called with the payment.
PluginConfirmPayment(kind, pi, payment) ==
  IF Truthy(pi.data)
  THEN LET status == Get(pi.data.fields, "decision", NoValue)
       IN  IF status # NoValue
                /\ status \in { Str(st) : st \in StatusCONFIRM }
           THEN IF kind \in { KindCAPTURE, KindCONFIRM }
                THEN LET cap == StatusAttr("CAPTURE")
                     IN  IF ~cap.ok THEN cap
                         ELSE IF status = cap.value THEN Ok(KindCAPTURE)
                         ELSE Ok(KindAUTH)
                ELSE Ok(kind)
           ELSE Ok(ACTION_TO_CONFIRM)
  ELSE Ok(ACTION_TO_CONFIRM)

\* Mutant of GetDefaultKind: the connection's auto-capture setting decides.
GetDefaultKindFromConnection(self) ==
  IF self.cs.auto_capture THEN KindCAPTURE ELSE KindAUTH

\* _get_default_kind
GetDefaultKind(self) ==
  IF self.auto_capture THEN KindCAPTURE ELSE KindAUTH

\* _process_payment.  fresh is what get_client_token() returns if called.
PluginProcessPayment(self, store, pi, kind, fresh, now) ==
  IF IsClientToken(pi.token) # "True"
  THEN CreatePayment(self.cs, pi, fresh, now)
  ELSE LET k1 == IF kind = "None" \/ kind = KindCONFIRM
                 THEN GetDefaultKind(self) ELSE kind
           p == PluginGetPayment(store, pi)
       IN  IF ~p.ok THEN p
           ELSE LET k2 == IF p.value.to_confirm
                          THEN PluginConfirmPayment(k1, pi, p.value)
                          ELSE Ok(k1)
                IN  IF ~k2.ok THEN k2
                    ELSE CreateResponse(pi, k2.value,
                           [ k \in { "action_required" }
                                   \cup ( IF Truthy(pi.data)
                                          THEN { "raw_response" }
                                          ELSE {} ) |->
                               IF k = "action_required"
                               THEN k2.value = ACTION_TO_CONFIRM
                               ELSE pi.data.fields ])

\* The kind each entry point asks _process_payment for.
Entries ==
  { "process_payment", "authorize_payment", "capture_payment",
    "confirm_payment" }

EntryKind(entry) ==
  CASE entry = "authorize_payment" -> KindAUTH
    [] entry = "capture_payment" -> KindCAPTURE
    [] entry = "confirm_payment" -> KindCONFIRM
    [] OTHER -> "None"

\* The payment_information the entry points are given.
DataFields ==
  { EmptyDict, [ n \in { "reason_code" } |-> <<"100">> ] }
  \cup { [ n \in { "decision" } |-> Str(st) ] : st \in Statuses }

PaymentInfos ==
  [ token : { NoToken, "", DEFAULT_TOKEN, Token },
    payment_id : { PaymentId },
    amount : { "100" },
    currency : { CURRENCY },
    data : { NoData } \cup { Data(f) : f \in DataFields } ]

NoCall ==
  [ called |-> FALSE, entry |-> "", kind |-> "", pi |-> << >>,
    before |-> {}, out |-> Raise("", "") ]

PlugIdle ==
  /\ pcall = NoCall
  /\ issued = {}
  /\ npay = 0

\* _process_payment(payment_information, kind) is called: through an entry
\* point, where require_active_plugin returns previous_value (None here)
\* when the plugin is not active, or directly.
CallProcess(entry, kind, pi, fresh) ==
  /\ npay < MaxCalls
  /\ fresh \notin issued
  /\ LET runs == plugin.active \/ entry = "_process_payment"
         makes == runs /\ IsClientToken(pi.token) # "True"
         out == IF runs
                THEN PluginProcessPayment(plugin, db, pi, kind, fresh, clock)
                ELSE Ok("None")
     IN  /\ pcall' = [ called |-> TRUE, entry |-> entry, kind |-> kind,
                       pi |-> pi, before |-> issued, out |-> out ]
         /\ issued' = IF makes THEN issued \cup { fresh } ELSE issued
  /\ npay' = npay + 1
  /\ UNCHANGED << plugin, signVars, hookVars, unitVars >>

\* A payment entry point is called on the plugin.
CallEntry(entry, pi, fresh) ==
  CallProcess(entry, EntryKind(entry), pi, fresh)

PaymentCall(entry, pi, fresh) ==
  /\ ~pcall.called
  /\ CallEntry(entry, pi, fresh)

\* The kinds _process_payment is not given by any entry point.
OtherKinds == { KindVOID, KindREFUND }

\* _process_payment is called with a kind no entry point passes.
ProcessPaymentCall(kind, pi, fresh) ==
  /\ ~pcall.called
  /\ CallProcess("_process_payment", kind, pi, fresh)

\* The same call is made again with the same payment_information.
PaymentAgain(fresh) ==
  /\ pcall.called
  /\ CallProcess(pcall.entry, pcall.kind, pcall.pi, fresh)

(***************************************************************************)
(* csapi.py: Response.add and Response.update; webhooks.py: the upsert of  *)
(* class Handler.  Their methods are called one at a time on a Response    *)
(* and on a Handler whose payment has the Transactions of hstore.          *)
(***************************************************************************)
\* Mutant of ResponseAdd: the value is written whether the key is there or
\* not.
ResponseAddOverwrites(data, name, value) ==
  [ data |-> Put(data, name, value), ret |-> name \notin DOMAIN data ]

\* Response.add(name, value): the field set afterwards, and what it returns.
ResponseAdd(data, name, value) ==
  IF name \notin DOMAIN data
  THEN [ data |-> Put(data, name, value), ret |-> TRUE ]
  ELSE [ data |-> data, ret |-> FALSE ]

\* Response.update(data): add() for each item in turn; keys are the items'
\* names in the order they are visited.
RECURSIVE ResponseUpdate(_, _, _)
ResponseUpdate(data, additions, keys) ==
  IF keys = <<>> THEN [ data |-> data, ret |-> EmptyDict ]
  ELSE LET a == ResponseAdd(data, keys[1], additions[keys[1]])
           rest == ResponseUpdate(a.data, additions, Tail(keys))
       IN  [ data |-> rest.data,
             ret |-> [ k \in { keys[1] } \cup DOMAIN rest.ret |->
                         IF k = keys[1] THEN a.ret ELSE rest.ret[k] ] ]

\* What the gateway posted, with or without an order_id of its own.
ResponseDatas ==
  { GatewayFields(ACCEPT),
    Put(GatewayFields(ACCEPT), "order_id", <<"G1">>),
    Put(GatewayFields(DECLINE), "message", <<"declined">>) }

\* What add() and update() are given.
Additions ==
  { [ n \in { "order_id" } |-> <<"O1">> ],
    [ n \in { "order_id", "message" } |-> <<"O1">> ],
    [ n \in { "decision", "locale" } |-> <<"en">> ] }

NoRcall ==
  [ called |-> FALSE, op |-> "", given |-> EmptyDict, before |-> EmptyDict,
    ret |-> EmptyDict ]

\* response.add(name, value), as handle_webhook calls it to stamp order_id.
ResponseAddCall(name, value) ==
  /\ nunit < MaxUnitCalls
  /\ LET a == ResponseAdd(resp, name, value)
     IN  /\ resp' = a.data
         /\ rcall' = [ called |-> TRUE, op |-> "add",
                       given |-> [ n \in { name } |-> value ],
                       before |-> resp,
                       ret |-> [ n \in { name } |-> a.ret ] ]
  /\ nunit' = nunit + 1
  /\ UNCHANGED << hstore, hcall, signVars, hookVars, plugVars >>

\* response.update(additions)
ResponseUpdateCall(additions) ==
  /\ nunit < MaxUnitCalls
  /\ LET u == ResponseUpdate(resp, additions, Sorted(DOMAIN additions))
     IN  /\ resp' = u.data
         /\ rcall' = [ called |-> TRUE, op |-> "update", given |-> additions,
                       before |-> resp, ret |-> u.ret ]
  /\ nunit' = nunit + 1
  /\ UNCHANGED << hstore, hcall, signVars, hookVars, plugVars >>

\* The field set the Handler was built with (it must allow response[name],
\* which a csapi.Response does not), and the Handler.
HandlerResponse == GatewayFields(ACCEPT)

HandlerOf(response) ==
  [ response |-> response, token |-> response[TOKEN_NAME][1] ]

NoKey == <<>>
OldRaw == [ n \in { "decision" } |-> Str(REVIEW) ]

\* The Transaction rows the Handler can meet.
StoredTransactions ==
  [ kind : { ACTION_TO_CONFIRM, KindAUTH },
    action_required : BOOLEAN,
    is_success : { TRUE },
    token : { Token, "U1" },
    searchable_key : { NoKey, << "nodash", Token >> },
    raw_response : { EmptyDict, OldRaw } ]

\* An optional argument: None, or a value.
NoArg == [ given |-> FALSE, v |-> FALSE ]
Arg(v) == [ given |-> TRUE, v |-> v ]

\* What a method call did: its outcome, the update_fields of the save()
\* it made (saves is how many it made), the rows as they are afterwards,
\* and how often create_transaction and gateway_postprocess were called.
Did(out, saved, saves, rows, created, postprocessed) ==
  [ out |-> out, saved |-> saved, saves |-> saves, rows |-> rows,
    created |-> created, postprocessed |-> postprocessed ]

\* make_searchable as webhooks.py can call it: the name is not imported.
HandlerMakeSearchable(token) ==
  Raise("NameError", "name 'make_searchable' is not defined")

\* Handler._get_transaction: the index of the last matching row, 0 for None.
GetTransaction(h, rows, kind, action_required) ==
  LET k == IF kind = "None" THEN ACTION_TO_CONFIRM ELSE kind
      M == { i \in 1..Len(rows) :
               /\ rows[i].is_success
               /\ rows[i].action_required = action_required
               /\ rows[i].token = h.token
               /\ rows[i].kind = k }
  IN  IF M = {} THEN 0 ELSE CHOOSE i \in M : \A j \in M : j <= i

\* Handler._gateway_response(kind, action_required), called with kind alone.
GatewayResponseCall(h, kind) ==
  Raise("TypeError",
        "_gateway_response() missing 1 required positional argument")

\* Handler._new_transaction
NewTransaction(h, rows, kind, action_required, post_process) ==
  LET g == GatewayResponseCall(h, IF kind = "None" THEN ACTION_TO_CONFIRM
                                  ELSE kind)
  IN  Did(g, <<>>, 0, rows, 0, 0)

\* Handler._update_transaction(transaction, kind, action_required), for the
\* row at index i.
UpdateTransaction(h, rows, i, kind, action_required) ==
  LET t0 == rows[i]
      c1 == kind # "None" /\ t0.kind # kind
      t1 == IF c1 THEN [ t0 EXCEPT !.kind = kind ] ELSE t0
      u1 == IF c1 THEN << "kind" >> ELSE <<>>
      c2 == action_required.given
              /\ t1.action_required # action_required.v
      t2 == IF c2 THEN [ t1 EXCEPT !.action_required = action_required.v ]
            ELSE t1
      u2 == IF c2 THEN Append(u1, "action_required") ELSE u1
      sk == HandlerMakeSearchable(h.token)
  IN  IF t2.searchable_key = NoKey /\ ~sk.ok
      THEN Did(sk, <<>>, 0, rows, 0, 0)
      ELSE LET c3 == t2.searchable_key = NoKey
               t3 == IF c3 THEN [ t2 EXCEPT !.searchable_key = sk.value ]
                     ELSE t2
               u3 == IF c3 THEN Append(u2, "searchable_key") ELSE u2
               c4 == t3.raw_response = EmptyDict
               t4 == IF c4 THEN [ t3 EXCEPT !.raw_response = h.response ]
                     ELSE t3
               u4 == IF c4 THEN Append(u3, "raw_response") ELSE u3
           IN  IF u4 # <<>>
               THEN Did(Ok(Len(u4)), u4, 1, [ rows EXCEPT ![i] = t4 ], 0, 0)
               ELSE Did(Ok(0), <<>>, 0, rows, 0, 0)

\* Handler._process_transaction(kind, action_required)
ProcessTransaction(h, rows, kind, action_required) ==
  LET i == GetTransaction(h, rows, kind, action_required)
  IN  IF i = 0
      THEN NewTransaction(h, rows, kind, action_required, TRUE)
      ELSE LET u == UpdateTransaction(h, rows, i, "None", NoArg)
           IN  IF u.out.ok THEN [ u EXCEPT !.out = Ok(i) ] ELSE u

UpdateKinds == { "None", ACTION_TO_CONFIRM, KindAUTH, KindCAPTURE }
UpdateFlags == { NoArg, Arg(TRUE), Arg(FALSE) }

NoHcall ==
  [ called |-> FALSE, op |-> "", found |-> 0, kind |-> "", flag |-> NoArg,
    before |-> <<>>, did |-> Did(Raise("", ""), <<>>, 0, <<>>, 0, 0) ]

\* handler._update_transaction(transaction, kind, action_required) for a
\* row of the payment (its last one).
UpdateTransactionCall(kind, flag) ==
  /\ nunit < MaxUnitCalls
  /\ hstore # <<>>
  /\ LET i == Len(hstore)
         d == UpdateTransaction(HandlerOf(HandlerResponse), hstore, i,
                                kind, flag)
     IN  /\ hcall' = [ called |-> TRUE, op |-> "_update_transaction",
                       found |-> i, kind |-> kind, flag |-> flag,
                       before |-> hstore, did |-> d ]
         /\ hstore' = d.rows
  /\ nunit' = nunit + 1
  /\ UNCHANGED << resp, rcall, signVars, hookVars, plugVars >>

\* handler._process_transaction(kind, action_required)
ProcessTransactionCall(kind, action_required) ==
  /\ nunit < MaxUnitCalls
  /\ LET h == HandlerOf(HandlerResponse)
         d == ProcessTransaction(h, hstore, kind, action_required)
     IN  /\ hcall' = [ called |-> TRUE, op |-> "_process_transaction",
                       found |-> GetTransaction(h, hstore, kind,
                                                action_required),
                       kind |-> kind, flag |-> Arg(action_required),
                       before |-> hstore, did |-> d ]
         /\ hstore' = d.rows
  /\ nunit' = nunit + 1
  /\ UNCHANGED << resp, rcall, signVars, hookVars, plugVars >>

UnitIdle ==
  /\ hstore = <<>>
  /\ hcall = NoHcall
  /\ resp = EmptyDict
  /\ rcall = NoRcall
  /\ nunit = 0

SignIdle ==
  /\ clock = "T1"
  /\ built = NoBuild
  /\ prev = NoBuild
  /\ posted = EmptyDict
  /\ orig = EmptyDict
  /\ ntamper = 0
  /\ vres = Raise("", "")
  /\ sphase = "idle"

\* The webhook entry point and its callers.
Init ==
  /\ cs \in [ merchant_id : {"M"}, profile_id : {"P"}, access_key : {"AK"},
              secret_key : {"K1"}, is_live : {FALSE}, auto_capture : {TRUE} ]
  /\ SignIdle
  /\ HookInit
  /\ plugin \in [ cs : {cs}, active : BOOLEAN, auto_capture : {FALSE},
                  return_url : {"https://shop/return"},
                  cancel_url : {"https://shop/cancel"} ]
  /\ PlugIdle
  /\ UnitIdle

Next ==
  \/ \E c \in Callers, t \in Tampers : Deliver(c, t)
  \/ \E c \in Callers : DeliverNoPost(c)
  \/ \E c \in Callers : HandleWebhookValidate(c)
  \/ \E c \in Callers : HandleWebhookReconcile(c)

Spec == Init /\ [][Next]_vars

\* The signer, its callers and the channel to the validator.
InitSign ==
  /\ SignInit
  /\ db = [ payment |-> NoPayment, transactions |-> {} ]
  /\ gw = ACCEPT
  /\ HookIdle
  /\ plugin = [ cs |-> cs, active |-> TRUE, auto_capture |-> FALSE,
                return_url |-> "https://shop/return",
                cancel_url |-> "https://shop/cancel" ]
  /\ PlugIdle
  /\ UnitIdle

SpecSign == InitSign /\ [][SignNext]_vars

\* The plugin's payment entry points.
InitPlugin ==
  /\ cs \in [ merchant_id : {"M"}, profile_id : {"P"}, access_key : {"AK"},
              secret_key : {"K1"}, is_live : {FALSE}, auto_capture : BOOLEAN ]
  /\ SignIdle
  /\ db \in DbStates
  /\ gw = ACCEPT
  /\ HookIdle
  /\ plugin \in [ cs : {cs}, active : BOOLEAN, auto_capture : BOOLEAN,
                  return_url : {"https://shop/return"},
                  cancel_url : {"https://shop/cancel"} ]
  /\ PlugIdle
  /\ UnitIdle

NextPlugin ==
  \/ \E entry \in Entries, pi \in PaymentInfos, fresh \in TokenPool :
       PaymentCall(entry, pi, fresh)
  \/ \E kind \in OtherKinds, pi \in PaymentInfos, fresh \in TokenPool :
       ProcessPaymentCall(kind, pi, fresh)
  \/ \E fresh \in TokenPool : PaymentAgain(fresh)

SpecPlugin == InitPlugin /\ [][NextPlugin]_vars

\* The methods of Response and Handler, called one at a time.
InitUnit ==
  /\ cs \in [ merchant_id : {"M"}, profile_id : {"P"}, access_key : {"AK"},
              secret_key : {"K1"}, is_live : {FALSE}, auto_capture : {TRUE} ]
  /\ SignIdle
  /\ db = [ payment |-> NoPayment, transactions |-> {} ]
  /\ gw = ACCEPT
  /\ HookIdle
  /\ plugin = [ cs |-> cs, active |-> TRUE, auto_capture |-> FALSE,
                return_url |-> "https://shop/return",
                cancel_url |-> "https://shop/cancel" ]
  /\ PlugIdle
  /\ hstore \in { <<>> } \cup { << t >> : t \in StoredTransactions }
  /\ hcall = NoHcall
  /\ resp \in ResponseDatas
  /\ rcall = NoRcall
  /\ nunit = 0

NextUnit ==
  \/ \E a \in Additions : \E n \in DOMAIN a : ResponseAddCall(n, a[n])
  \/ \E a \in Additions : ResponseUpdateCall(a)
  \/ \E k \in UpdateKinds, f \in UpdateFlags : UpdateTransactionCall(k, f)
  \/ \E k \in { "None", ACTION_TO_CONFIRM, KindAUTH }, ar \in BOOLEAN :
       ProcessTransactionCall(k, ar)

SpecUnit == InitUnit /\ [][NextUnit]_vars

(***************************************************************************)
(* Properties of the signer and validator (specification SpecSign).        *)
(***************************************************************************)
\* The names a comma-separated list value names ('' names none).
ListedNames(v) ==
  LET segs == SplitStr(v, SIGNED_FIELD_SEP)
  IN  { segs[i][1] : i \in { j \in 1..Len(segs) : Len(segs[j]) = 1 } }

SignedOf(d) == ListedNames(d["signed_field_names"])
UnsignedOf(d) == ListedNames(d["unsigned_field_names"])

BuiltOk == built.called /\ built.out.ok

\* C4: Signature round-trip. A field set returned by a successful process()
\* and validated unchanged with the same CyberSource object is accepted, and
\* the Response returned holds every signed field with the value it was
\* built with.
C4_SignatureRoundTrip ==
  (sphase = "validated" /\ ntamper = 0) =>
    /\ vres.ok
    /\ \A f \in SignedOf(orig) :
         f \in DOMAIN vres.value.data /\ vres.value.data[f] = orig[f]

C4_Witness ==
  /\ sphase = "validated" /\ ntamper = 0 /\ vres.ok
  /\ "customer_ip_address" \in DOMAIN orig
  /\ "bill_to_email" \in SignedOf(orig)

\* Exactly one field differs between posted and orig, it is one that
\* signed_field_names names, and nothing was added or removed.
OneSignedValueChanged ==
  /\ DOMAIN posted = DOMAIN orig
  /\ \E f \in SignedOf(orig) :
       /\ posted[f] # orig[f]
       /\ \A g \in (DOMAIN orig) \ {f} : posted[g] = orig[g]

\* C5: Tamper detection. Changing the value of one signed field without
\* recomputing the signature makes validate() fail with SignatureError.
C5_TamperRaisesSignatureError ==
  (sphase = "validated" /\ OneSignedValueChanged) =>
    (~vres.ok /\ vres.exc = "SignatureError")

\* posted still has the signature and every signed field as they were signed.
SignedPartUntouched ==
  /\ "signature" \in DOMAIN posted
  /\ posted["signature"] = orig["signature"]
  /\ \A f \in SignedOf(orig) : f \in DOMAIN posted /\ posted[f] = orig[f]

\* C6: Unsigned-field independence. Changing, adding or removing fields that
\* signed_field_names does not name (and that are not the signature) leaves
\* validate() succeeding.
C6_UnsignedFieldIndependence ==
  (sphase = "validated" /\ SignedPartUntouched) => vres.ok

C6_Witness ==
  /\ sphase = "validated" /\ SignedPartUntouched /\ vres.ok
  /\ "customer_ip_address" \in DOMAIN orig
  /\ "customer_ip_address" \in DOMAIN posted
  /\ posted["customer_ip_address"] # orig["customer_ip_address"]

\* C7 as claimed: the names signed_field_names and unsigned_field_names list
\* are disjoint and together are exactly the keys of the returned field set.
C7_SubsetPartition ==
  BuiltOk =>
    /\ SignedOf(built.out.value) \cap UnsignedOf(built.out.value) = {}
    /\ SignedOf(built.out.value) \cup UnsignedOf(built.out.value)
         = DOMAIN built.out.value

\* C7, amended: the two lists are disjoint and together are the keys of the
\* returned field set other than "signature"; "signature" is listed (as
\* unsigned) only when the caller's input already had that key.
C7_PartitionExceptSignature ==
  BuiltOk =>
    /\ SignedOf(built.out.value) \cap UnsignedOf(built.out.value) = {}
    /\ SignedOf(built.out.value) \cup UnsignedOf(built.out.value)
         = (DOMAIN built.out.value)
             \ ({"signature"} \ DOMAIN built.input)
    /\ "signature" \in DOMAIN built.out.value
    /\ "signature" \notin SignedOf(built.out.value)

C7_Witness ==
  /\ BuiltOk
  /\ "signature" \notin DOMAIN built.input
  /\ "customer_ip_address" \in UnsignedOf(built.out.value)

C19_TransactionTypeFollowsAutoCapture ==
  BuiltOk =>
    built.out.value["transaction_type"]
      = Str(IF cs.auto_capture THEN CAPTURE ELSE AUTH)

C19_Witness ==
  /\ BuiltOk
  /\ ~cs.auto_capture
  /\ "transaction_type" \in DOMAIN built.input
  /\ built.input["transaction_type"] = <<"caller">>
  /\ built.out.value["transaction_type"] = <<"authorization">>

(***************************************************************************)
(* Properties of handle_webhook, checked under Spec.                       *)
(***************************************************************************)
Range(q) == { q[i] : i \in DOMAIN q }

ValidReturn(c) ==
  /\ db.payment.exists
  /\ db.payment.to_confirm
  /\ gw \in StatusRETURN
  /\ pc[c] = "done"
  /\ Validate(cs, req[c]).ok

\* C1: a valid webhook whose decision is in Status.RETURN, delivered twice in
\* sequence for a payment awaiting confirmation, leaves exactly one
\* Transaction for the payment's token (of each kind at most one) and has
\* asked for the order exactly once.
C1_WebhookUpsertIdempotent ==
  ( ValidReturn("notify") /\ nvalid["notify"] = 2 )
    => LET T == { t \in db.transactions : t.token = Token }
       IN  /\ T # {}
           /\ \A t1, t2 \in T : t1.kind = t2.kind => t1 = t2
           /\ orders = 1

\* C2: when the notification and the browser's return both carry the same
\* valid payload for a payment awaiting confirmation, at most one of the two
\* calls creates the Transaction, at most one asks for the order, and a call
\* that did not create the Transaction updates it.
C2_NotifyReturnRace ==
  ( \A c \in Callers : ValidReturn(c) /\ ncalls[c] = 1 )
    => LET creators == { c \in Callers :
                           "create_transaction" \in Range(log[c]) }
           updaters == { c \in Callers :
                           "update_transaction" \in Range(log[c]) }
           orderers == { c \in Callers : "create_order" \in Range(log[c]) }
       IN  /\ Cardinality(creators) <= 1
           /\ Cardinality(orderers) <= 1
           /\ Callers \ creators \subseteq updaters

C10_NoLookup ==
  \A c \in Callers :
    ( pc[c] # "idle" /\ ~Validate(cs, req[c]).ok )
      => /\ "get_payment" \notin Range(log[c])
         /\ pc[c] # "validated"
         /\ pc[c] = "done" => ~res[c].ok

C10_NoWrite ==
  \A c \in Callers :
    ( pc[c] = "called" /\ pc'[c] # "called" /\ ~Validate(cs, req[c]).ok )
      => ( pc'[c] = "done" /\ db' = db /\ orders' = orders )

\* C10: a handle_webhook call whose data fails validate() (signature absent,
\* empty or not matching, or a signed field absent) ends in an error without
\* looking the payment up, and changes no Payment, Transaction or order.
C10_ValidationPrecedesLookup == []C10_NoLookup /\ [][C10_NoWrite]_vars

C10_Witness ==
  \E c \in Callers :
    /\ pc[c] = "done"
    /\ log[c] = << "validate" >>
    /\ req[c]["req_amount"] = <<"0.01">>
    /\ ~Validate(cs, req[c]).ok
    /\ ~res[c].ok

\* C20: Status classification. RETURN, CONFIRM and SUCCESS are one set, whose
\* members are exactly ACCEPT and REVIEW; FAILED's members are exactly
\* CANCEL, DECLINE and ERROR; the two groups are disjoint and together are
\* the five values of Status, so the decision the gateway reports is in
\* exactly one of them.
C20_StatusClassification ==
  /\ StatusRETURN = { ACCEPT, REVIEW }
  /\ StatusCONFIRM = StatusRETURN
  /\ StatusSUCCESS = StatusRETURN
  /\ StatusFAILED = { CANCEL, DECLINE, ERROR }
  /\ StatusRETURN \cap StatusFAILED = {}
  /\ StatusRETURN \cup StatusFAILED = Statuses
  /\ Cardinality(Statuses) = 5
  /\ (gw \in StatusRETURN) # (gw \in StatusFAILED)

C20_Witness ==
  \E c \in Callers :
    /\ pc[c] = "done"
    /\ gw = ERROR
    /\ res[c].ok
    /\ res[c].value.status = Str(ERROR)

(***************************************************************************)
(* Properties of the payment entry points, checked under SpecPlugin.       *)
(***************************************************************************)
\* The last call ran _process_payment, with a well-formed client token or
\* without one.
Processed ==
  pcall.called /\ ( plugin.active \/ pcall.entry = "_process_payment" )
WithToken == Processed /\ IsClientToken(pcall.pi.token) = "True"
WithoutToken == Processed /\ IsClientToken(pcall.pi.token) # "True"

Decision == Get(pcall.pi.data.fields, "decision", NoValue)
Accepted ==
  Truthy(pcall.pi.data) /\ Decision \in { Str(st) : st \in StatusCONFIRM }

\* C11: a payment entry point called with a token that is no well-formed
\* client token (None, empty, or no UUID) returns a response of kind
\* ACTION_TO_CONFIRM with action_required true, whose transaction id is a
\* UUID get_client_token() had not returned before, and whose redirect
\* payload is built and signed for that token; on the first call and on a
\* repeated one.
C11_NewRedirectWithoutToken ==
  WithoutToken =>
    /\ pcall.out.ok
    /\ pcall.out.value.kind = ACTION_TO_CONFIRM
    /\ pcall.out.value.action_required = TRUE
    /\ pcall.out.value.transaction_id \in UuidStrings \ pcall.before
    /\ pcall.out.value.transaction_id \in issued
    /\ pcall.out.value.action_required_data.txn_id
         = pcall.out.value.transaction_id
    /\ pcall.out.value.action_required_data.inputs["transaction_uuid"]
         = Str(pcall.out.value.transaction_id)
    /\ pcall.out.value.action_required_data.inputs["reference_number"]
         = Str(pcall.pi.payment_id)
    /\ Validate(cs, pcall.out.value.action_required_data.inputs).ok

C11_Witness ==
  /\ WithoutToken
  /\ npay = 2
  /\ pcall.pi.token = DEFAULT_TOKEN
  /\ pcall.before # {}
  /\ pcall.out.ok
  /\ pcall.out.value.transaction_id \notin pcall.before

\* C12: with a well-formed token, a payment awaiting confirmation and an
\* inbound decision of ACCEPT or REVIEW, capture_payment and confirm_payment
\* return a response, and its kind is AUTH: neither decision signals
\* capture.
C12_ConservativeCapture ==
  ( /\ WithToken
    /\ db.payment.exists /\ db.payment.to_confirm
    /\ Accepted
    /\ pcall.entry \in { "capture_payment", "confirm_payment" } )
    => ( pcall.out.ok /\ pcall.out.value.kind = KindAUTH )

\* C13: with a well-formed token and a payment awaiting confirmation, when
\* the inbound data is None or empty, has no decision, or has a decision
\* other than ACCEPT and REVIEW, the response's kind is ACTION_TO_CONFIRM,
\* whichever entry point was called.
C13_StillWaiting ==
  ( /\ WithToken
    /\ db.payment.exists /\ db.payment.to_confirm
    /\ ~Accepted )
    => ( pcall.out.ok /\ pcall.out.value.kind = ACTION_TO_CONFIRM )

C13_Witness ==
  /\ WithToken
  /\ db.payment.exists /\ db.payment.to_confirm
  /\ pcall.entry = "capture_payment"
  /\ Decision = Str(DECLINE)
  /\ pcall.out.ok
  /\ pcall.out.value.kind = ACTION_TO_CONFIRM

\* C18: with a well-formed token and no Payment for
\* payment_information.payment_id, every payment entry point fails with
\* PaymentError, returns no response, and issues no token for a new
\* redirect.
C18_UnknownPaymentInProcessPayment ==
  ( WithToken /\ ~db.payment.exists )
    => /\ ~pcall.out.ok
       /\ pcall.out.exc = "PaymentError"
       /\ issued = pcall.before

C18_Witness ==
  /\ WithToken
  /\ ~db.payment.exists
  /\ pcall.entry = "capture_payment"
  /\ ~pcall.out.ok
  /\ pcall.out.exc = "PaymentError"

(***************************************************************************)
(* Claims about plugin.webhook and the unknown payment.                    *)
(***************************************************************************)
\* A caller's POST has been answered: handle_webhook ran and ended.
Answered(c) == pc[c] = "done" /\ log[c] # <<>>

\* The JSON object a redirect carries in its query string.
Payload(h) == h.qs[2][2][2]

\* C14: a POST to the notify path is answered with the plain body OK when
\* handle_webhook returns and with the plain body ERROR when it raises, and
\* no request to the notify path is answered with a redirect.
C14_NotifyAcknowledgement ==
  /\ Answered("notify") =>
       http["notify"] = HttpResponse(IF res["notify"].ok THEN "OK"
                                     ELSE "ERROR")
  /\ http["notify"].kind # "HttpResponseRedirect"

C14_Witness ==
  /\ Answered("notify")
  /\ ~res["notify"].ok
  /\ Validate(cs, req["notify"]).ok
  /\ http["notify"].body = "ERROR"

C14_WitnessOk ==
  /\ Answered("notify")
  /\ res["notify"].ok
  /\ http["notify"].body = "OK"

\* C15: every request to the return path is answered with a redirect, and
\* when handle_webhook raised, the redirect goes to the cancel URL and its
\* payload has status ERROR.
C15_ReturnAlwaysRedirects ==
  /\ pc["return"] = "done" => http["return"].kind = "HttpResponseRedirect"
  /\ ( Answered("return") /\ ~res["return"].ok ) =>
       /\ http["return"].url = << plugin.cancel_url >>
       /\ Payload(http["return"])["status"] = Str(ERROR)

C15_Witness ==
  /\ Answered("return")
  /\ ~res["return"].ok
  /\ http["return"].kind = "HttpResponseRedirect"
  /\ http["return"].url = << plugin.cancel_url >>

\* The texts of the exceptions handle_webhook lets out that are no
\* PaymentError.
InternalTexts ==
  { Str("super(): no arguments"), Str("name 'args' is not defined"),
    Str("name 'get_payment' is not defined") }

\* C16: when handle_webhook raised on the return path, no field of the
\* redirect's payload holds the text of the exception: the message is the
\* generic one and the code the generic code.
C16_NoInternalErrorText ==
  ( Answered("return") /\ ~res["return"].ok ) =>
    LET p == Payload(http["return"])
    IN  /\ \A k \in DOMAIN p : p[k] \notin InternalTexts
        /\ p["message"] = Str(EXCEPTION_TEXT)
        /\ p["code"] = Str(EXCEPTION_CODE)

\* C17: a validated webhook whose decision is ACCEPT or REVIEW and whose
\* reference number matches no Payment ends in PaymentError, and no
\* Transaction and no order is created.
C17_UnknownPaymentInWebhook ==
  \A c \in Callers :
    ( /\ Answered(c)
      /\ Validate(cs, req[c]).ok
      /\ gw \in { ACCEPT, REVIEW }
      /\ ~db.payment.exists )
      => ( /\ ~res[c].ok
           /\ res[c].exc = "PaymentError"
           /\ db.transactions = {}
           /\ orders = 0 )

(***************************************************************************)
(* Claims about what handle_webhook does for an accepted payment.          *)
(***************************************************************************)
\* The Transactions that confirm the payment's token.
Confirming(txs) ==
  { t \in txs : t.token = Token /\ t.kind \in { KindCAPTURE, KindAUTH } }

C21_Step(c) ==
  ( /\ pc[c] = "validated" /\ pc'[c] = "done"
    /\ gw = ACCEPT
    /\ db.payment.exists /\ db.payment.to_confirm
    /\ db.transactions = {} )
    => ( /\ Cardinality(Confirming(db'.transactions)) = 1
         /\ orders' = orders + 1 )

\* C21: a validated webhook with decision ACCEPT, for a payment awaiting
\* confirmation that has no Transaction yet, creates exactly one Transaction
\* of kind CAPTURE or AUTH and asks for the order exactly once.
C21_AcceptedCreatesTransaction == [][\A c \in Callers : C21_Step(c)]_vars

\* C28: in a validated webhook with decision ACCEPT or REVIEW for a payment
\* awaiting confirmation, the order is asked for only when the payment has
\* no order and has a checkout, at most once per call; and when the payment
\* has neither order nor checkout the call ends in PaymentError.
C28_OrderCreationGuard ==
  \A c \in Callers :
    ValidReturn(c) =>
      /\ orders <= nvalid["notify"] + nvalid["return"]
      /\ ( db.payment.order # "None" \/ ~db.payment.checkout ) => orders = 0
      /\ ( db.payment.order = "None" /\ ~db.payment.checkout )
           => ( ~res[c].ok /\ res[c].exc = "PaymentError" )

(***************************************************************************)
(* More properties of the payment entry points (SpecPlugin).               *)
(***************************************************************************)
\* C22: every response _process_payment returns, through an entry point or
\* directly, for a new redirect or for an existing token, has
\* action_required true exactly when its kind is ACTION_TO_CONFIRM.
C22_ActionRequiredTracksKind ==
  ( Processed /\ pcall.out.ok ) =>
    ( pcall.out.value.action_required = TRUE
        <=> pcall.out.value.kind = ACTION_TO_CONFIRM )

C22_Witness ==
  /\ WithToken
  /\ pcall.out.ok
  /\ pcall.out.value.kind = KindAUTH
  /\ pcall.out.value.action_required = FALSE

C22_WitnessNew ==
  /\ WithoutToken
  /\ pcall.out.ok
  /\ pcall.out.value.kind = ACTION_TO_CONFIRM
  /\ pcall.out.value.action_required = TRUE

\* The kind _process_payment works with once the default has replaced None
\* and CONFIRM.
Requested ==
  IF pcall.kind \in { "None", KindCONFIRM } THEN GetDefaultKind(plugin)
  ELSE pcall.kind

\* C23: with a well-formed token and an existing payment: when the payment
\* awaits confirmation, the decision is ACCEPT or REVIEW and the kind asked
\* for is AUTH, VOID or REFUND, the response has that kind; and when the
\* payment does not await confirmation, the response has the kind asked for
\* (or the default), whatever the data.
C23_KindPassThrough ==
  ( WithToken /\ db.payment.exists ) =>
    /\ ( /\ db.payment.to_confirm
         /\ Accepted
         /\ pcall.kind \in { KindAUTH, KindVOID, KindREFUND } )
         => ( pcall.out.ok /\ pcall.out.value.kind = pcall.kind )
    /\ ~db.payment.to_confirm
         => ( pcall.out.ok /\ pcall.out.value.kind = Requested )

C23_Witness ==
  /\ WithToken
  /\ db.payment.exists /\ db.payment.to_confirm
  /\ Decision = Str(REVIEW)
  /\ pcall.kind = KindREFUND
  /\ pcall.out.ok
  /\ pcall.out.value.kind = KindREFUND

\* C24: when _process_payment is given no kind, or CONFIRM, the kind it
\* works with is CAPTURE if config.auto_capture is true and AUTH otherwise:
\* that is the response's kind for a payment that does not await
\* confirmation, and AUTH passes through an accepted decision.
C24_DefaultKind ==
  ( /\ WithToken
    /\ db.payment.exists
    /\ pcall.kind \in { "None", KindCONFIRM } ) =>
    /\ ~db.payment.to_confirm
         => /\ pcall.out.ok
            /\ pcall.out.value.kind =
                 IF plugin.auto_capture THEN KindCAPTURE ELSE KindAUTH
    /\ ( db.payment.to_confirm /\ Accepted /\ ~plugin.auto_capture )
         => ( pcall.out.ok /\ pcall.out.value.kind = KindAUTH )

C24_Witness ==
  /\ WithToken
  /\ db.payment.exists /\ ~db.payment.to_confirm
  /\ pcall.entry = "confirm_payment"
  /\ plugin.auto_capture /\ ~plugin.cs.auto_capture
  /\ pcall.out.ok
  /\ pcall.out.value.kind = KindCAPTURE

(***************************************************************************)
(* More properties of the signer and validator (SpecSign).                 *)
(***************************************************************************)
\* C25: in every field set process() returns, every name of REQUIRED_FIELDS
\* is listed in signed_field_names and none of them in
\* unsigned_field_names.
C25_RequiredFieldsSigned ==
  BuiltOk =>
    \A n \in REQUIRED_FIELDS :
      /\ n \in DOMAIN built.out.value
      /\ n \in SignedOf(built.out.value)
      /\ n \notin UnsignedOf(built.out.value)

C25_Witness ==
  /\ BuiltOk
  /\ "access_key" \notin DOMAIN built.input
  /\ "customer_ip_address" \in UnsignedOf(built.out.value)
  /\ REQUIRED_FIELDS \subseteq SignedOf(built.out.value)

\* C26: validate() of a field set without signature key fails with
\* ValidationError carrying the missing-signature message, and of one whose
\* signature is falsy with ValidationError carrying the empty-signature
\* message; neither is the error of a signature that does not match.
C26_SignaturePresenceChecks ==
  sphase = "validated" =>
    /\ "signature" \notin DOMAIN posted
         => /\ ~vres.ok
            /\ vres.exc = "ValidationError"
            /\ vres.msg = E_NO_SIGN_FIELD
    /\ ( "signature" \in DOMAIN posted /\ posted["signature"] = <<>> )
         => /\ ~vres.ok
            /\ vres.exc = "ValidationError"
            /\ vres.msg = E_NO_SIGN_VALUE

(***************************************************************************)
(* The secret key stays with the signer.                                   *)
(***************************************************************************)
\* No field of d is named like the secret key or has it as its value.  The
\* signature is a digest made with the key, not the key.
NoSecret(d) ==
  \A n \in DOMAIN d :
    /\ n \notin { cs.secret_key, "secret_key" }
    /\ d[n] # Str(cs.secret_key)

\* C30: when the caller's input does not hold the secret key, neither does
\* the field set process() returns, nor the action_required_data of a
\* response the plugin returns, nor the payload of a redirect the plugin
\* answers a webhook with.
C30_SecretKeyNeverTransmitted ==
  /\ ( BuiltOk /\ NoSecret(built.input) ) => NoSecret(built.out.value)
  /\ ( WithoutToken /\ pcall.out.ok ) =>
       LET ard == pcall.out.value.action_required_data
       IN  /\ ard.action # cs.secret_key
           /\ ard.txn_id # cs.secret_key
           /\ NoSecret(ard.inputs)
  /\ \A c \in Callers :
       http[c].kind = "HttpResponseRedirect" =>
         /\ NoSecret(Payload(http[c]))
         /\ http[c].url # << cs.secret_key >>

C30_Witness ==
  /\ WithoutToken
  /\ pcall.out.ok
  /\ pcall.out.value.action_required_data.inputs["signature"][2]
       = cs.secret_key
  /\ NoSecret(pcall.out.value.action_required_data.inputs)

(***************************************************************************)
(* Properties of Response.update and of the Handler's upsert (SpecUnit).   *)
(***************************************************************************)
\* The arguments the last call handed to _update_transaction.
UpdateKind ==
  IF hcall.op = "_update_transaction" THEN hcall.kind ELSE "None"
UpdateFlag ==
  IF hcall.op = "_update_transaction" THEN hcall.flag ELSE NoArg

\* The fields of row t whose value the update changes.
ChangedFields(t) ==
  { f \in { "kind" } : UpdateKind # "None" /\ t.kind # UpdateKind }
  \cup { f \in { "action_required" } :
           UpdateFlag.given /\ t.action_required # UpdateFlag.v }
  \cup { f \in { "searchable_key" } : t.searchable_key = NoKey }
  \cup { f \in { "raw_response" } : t.raw_response = EmptyDict }

\* C27: when a matching Transaction exists, the upsert creates none and
\* calls no post-create hook, and _update_transaction saves exactly the
\* fields among kind, action_required, searchable_key (if unset) and
\* raw_response (if unset) whose value changes, with no save when none
\* does.
C27_UpdateWritesOnlyChanges ==
  ( hcall.called /\ hcall.found > 0 ) =>
    LET E == ChangedFields(hcall.before[hcall.found])
    IN  /\ hcall.did.out.ok
        /\ Range(hcall.did.saved) = E
        /\ hcall.did.saves = IF E = {} THEN 0 ELSE 1
        /\ Len(hstore) = Len(hcall.before)
        /\ hcall.did.created = 0
        /\ hcall.did.postprocessed = 0

\* C27 for rows whose searchable_key is set.
C27_WhenKeySet ==
  ( /\ hcall.called /\ hcall.found > 0
    /\ hcall.before[hcall.found].searchable_key # NoKey ) =>
    LET E == ChangedFields(hcall.before[hcall.found])
    IN  /\ hcall.did.out.ok
        /\ Range(hcall.did.saved) = E
        /\ hcall.did.saves = IF E = {} THEN 0 ELSE 1
        /\ Len(hstore) = Len(hcall.before)

\* C29: Response.add and Response.update write a key only when the wrapped
\* field set does not have it, leave every key it has as it was, and return
\* for each given key whether it was written; an order_id the gateway
\* posted survives the stamping of order_id.
C29_FirstWriteWins ==
  rcall.called =>
    /\ DOMAIN resp = (DOMAIN rcall.before) \cup (DOMAIN rcall.given)
    /\ \A k \in DOMAIN rcall.before : resp[k] = rcall.before[k]
    /\ DOMAIN rcall.ret = DOMAIN rcall.given
    /\ \A k \in DOMAIN rcall.given :
         /\ rcall.ret[k] = ( k \notin DOMAIN rcall.before )
         /\ rcall.ret[k] => resp[k] = rcall.given[k]

C29_Witness ==
  /\ rcall.called
  /\ rcall.op = "update"
  /\ "order_id" \in DOMAIN rcall.before
  /\ { "order_id", "message" } \subseteq DOMAIN rcall.given
  /\ rcall.given["order_id"] # rcall.before["order_id"]
  /\ resp["order_id"] = <<"G1">>
  /\ rcall.ret["order_id"] = FALSE
  /\ rcall.ret["message"] = TRUE

C29_WitnessStamp ==
  /\ rcall.called
  /\ rcall.op = "add"
  /\ rcall.given = [ n \in { "order_id" } |-> <<"O1">> ]
  /\ resp["order_id"] = <<"G1">>
  /\ rcall.ret["order_id"] = FALSE

(***************************************************************************)
(* The capture policy, from the redirect request to the recorded kind.     *)
(***************************************************************************)
\* C31: the transaction_type of a redirect request the plugin builds asks
\* for capture ('sale') exactly when the plugin's default kind is CAPTURE.
C31_CapturePolicyConsistent ==
  ( WithoutToken /\ pcall.out.ok ) =>
    ( pcall.out.value.action_required_data.inputs["transaction_type"]
        = Str(CAPTURE)
      <=> GetDefaultKind(plugin) = KindCAPTURE )

(***************************************************************************)
(* What handle_webhook leaves alone, and the plugin that is not active.    *)
(***************************************************************************)
C32_Step(c) ==
  ( pc[c] = "validated" /\ pc'[c] = "done" ) =>
    /\ ( db' # db \/ orders' # orders )
         => /\ gw \in { ACCEPT, REVIEW }
            /\ db.payment.exists /\ db.payment.to_confirm
    /\ gw \in StatusFAILED
         => /\ db' = db /\ orders' = orders
            /\ "get_payment" \notin Range(log'[c])
            /\ res'[c] = Ok(Response(req[c]))

\* C32: handle_webhook writes a Transaction or asks for the order only for a
\* validated decision of ACCEPT or REVIEW and a payment awaiting
\* confirmation; for CANCEL, DECLINE and ERROR it looks no payment up,
\* changes nothing and returns the Response validation gave.
C32_ReconciliationGuard == [][\A c \in Callers : C32_Step(c)]_vars

C32_Witness ==
  \E c \in Callers :
    /\ Answered(c)
    /\ gw = DECLINE
    /\ db.payment.exists /\ db.payment.to_confirm
    /\ res[c] = Ok(Response(req[c]))
    /\ log[c] = << "validate" >>

\* C33: while the plugin is not active, a payment entry point returns
\* previous_value without issuing a token, and the webhook entry point
\* validates nothing and reconciles nothing.
C33_InactivePluginInert ==
  ~plugin.active =>
    /\ ( pcall.called /\ pcall.entry \in Entries )
         => ( pcall.out = Ok("None") /\ issued = pcall.before )
    /\ \A c \in Callers : log[c] = <<>> /\ nvalid[c] = 0

====
